---- MODULE Spec2Model ----
(***************************************************************************)
(* BookTrack API (backend/main.py): a FastAPI service with a lifespan      *)
(* scope that owns a psycopg connection pool, a Prometheus middleware,     *)
(* three probes (/healthz, /readyz, /startup), the /books endpoint and     *)
(* the /metrics exposition endpoint.                                       *)
(*                                                                         *)
(* Requests are anonymous: the requests in flight form a bag of records.   *)
(* A request is "called" once the middleware has invoked call_next, it is  *)
(* "leased" while its handler holds a pool connection, and "responded"     *)
(* once the handler has produced its response (a returned value or an      *)
(* HTTPException turned into a response) that the middleware has not yet   *)
(* recorded.  The lifespan scope is entered and left once per process.     *)
(* The database (reachability, table contents) is the environment.         *)
(*                                                                         *)
(* The lifespan, the middleware and the async handlers run on the event    *)
(* loop.  healthz and metrics are sync functions: they run in worker       *)
(* threads, concurrently with the event loop.  The middleware's second     *)
(* half has no suspension point, so no other step of the event loop comes  *)
(* between its two updates, but a worker thread may: generate_latest()     *)
(* reads the metrics one child at a time and its snapshot can be torn.     *)
(***************************************************************************)
EXTENDS Integers, Sequences, FiniteSets, Bags, TLC

VARIABLES
    state_attrs,      \* names of the attributes set on app.state
    is_loaded,        \* app.state.is_loaded (meaningful once the attribute is set)
    pool_closed,      \* app.state.pool has been closed
    pool_leased,      \* connections of app.state.pool currently leased
    pool_timeouts,    \* history: leases that timed out while max_size connections were leased
    close_calls,      \* number of calls of app.state.pool.close()
    lifespan_pc,      \* position of the lifespan generator
    db_up,            \* the database is reachable
    books,            \* rows of the table books
    reqs,             \* bag of the requests in flight
    REQUEST_COUNT,    \* http_requests_total, by (method, endpoint, status)
    REQUEST_LATENCY,  \* http_request_duration_seconds observations, by (method, endpoint)
    DB_FAILURES,      \* db_connection_failures_total
    count_children,   \* labelled children of REQUEST_COUNT, in the order of their creation
    latency_children, \* labelled children of REQUEST_LATENCY, in the order of their creation
    returned          \* responses handed back to the clients, by (method, endpoint, status)

vars == <<state_attrs, is_loaded, pool_closed, pool_leased, pool_timeouts, close_calls,
          lifespan_pc,
          db_up, books, reqs, REQUEST_COUNT, REQUEST_LATENCY, DB_FAILURES,
          count_children, latency_children, returned>>

lifecycle_vars == <<state_attrs, is_loaded, pool_closed, close_calls, lifespan_pc>>
metric_vars == <<REQUEST_COUNT, REQUEST_LATENCY, count_children, latency_children, returned>>

(***************************************************************************)
(* Bounds of the model.                                                    *)
(***************************************************************************)
MaxRequests == 3        \* requests that arrive in a run of Spec
MaxPoolRequests == 6    \* requests that arrive in a run of SpecPool

(***************************************************************************)
(* Program constants and the input domains.                                *)
(***************************************************************************)
\* max_size for a pool configured one connection larger
max_size_larger == 5 + 1

max_size == 5

DbEndpoints == {"/readyz", "/books"}
ProbeEndpoints == {"/healthz", "/startup", "/metrics"}
Endpoints == DbEndpoints \cup ProbeEndpoints
Statuses == {200, 500, 503}
Labels == {"GET"} \X Endpoints \X Statuses
LatencyLabels == {"GET"} \X Endpoints

Dune == [id |-> 1, title |-> "Dune"]
Foundation == [id |-> 2, title |-> "Foundation"]
DuneAgain == [id |-> 3, title |-> "Dune"]

\* the contents of the table books that a run may start with
Tables == { {}, {Dune}, {Dune, Foundation}, {Dune, Foundation, DuneAgain} }

RECURSIVE SumOver(_, _)
SumOver(S, f) ==
    IF S = {} THEN 0
    ELSE LET x == CHOOSE y \in S : TRUE IN f[x] + SumOver(S \ {x}, f)

\* requests of the endpoints eps that have arrived so far: in flight or answered
Arrived(eps) ==
    LET inflight == {r \in BagToSet(reqs) : r.ep \in eps}
    IN  SumOver(inflight, [r \in inflight |-> CopiesIn(r, reqs)])
        + SumOver({"GET"} \X eps \X Statuses, returned)

(***************************************************************************)
(* Responses.                                                              *)
(***************************************************************************)
JSON(status, body) == [status |-> status, body |-> body]
HTTPException(status_code, detail) == [status |-> status_code, body |-> [detail |-> detail]]

Called(ep) == [ep |-> ep, pc |-> "called"]
Leased(ep) == [ep |-> ep, pc |-> "leased"]
Responded(ep, resp) == [ep |-> ep, pc |-> "responded", status |-> resp.status, body |-> resp.body]

\* one request moves from the record old to the record new
Move(old, new) ==
    /\ BagIn(old, reqs)
    /\ reqs' = (reqs (-) SetToBag({old})) (+) SetToBag({new})

\* the event loop is between two steps: no middleware is between its two updates
LoopFree == \A r \in BagToSet(reqs) : r.pc # "counted"

\* a step of a coroutine of the event loop
MoveOnLoop(old, new) == LoopFree /\ Move(old, new)

(***************************************************************************)
(* Lifespan.                                                               *)
(***************************************************************************)
Init ==
    /\ state_attrs = {}
    /\ is_loaded = FALSE
    /\ pool_closed = FALSE
    /\ pool_leased = 0
    /\ pool_timeouts = 0
    /\ close_calls = 0
    /\ lifespan_pc = "not_started"
    /\ db_up \in BOOLEAN
    /\ books \in Tables
    /\ reqs = EmptyBag
    /\ REQUEST_COUNT = [l \in Labels |-> 0]
    /\ REQUEST_LATENCY = [l \in LatencyLabels |-> 0]
    /\ DB_FAILURES = 0
    /\ count_children = <<>>
    /\ latency_children = <<>>
    /\ returned = [l \in Labels |-> 0]


\* LifespanEnter with the flag set before the pool is constructed
LifespanEnterFlagFirst(ok) ==
    /\ LoopFree
    /\ lifespan_pc = "not_started"
    /\ is_loaded' = TRUE
    /\ IF ok
       THEN /\ state_attrs' = state_attrs \cup {"is_loaded", "pool"}
            /\ lifespan_pc' = "yielded"
       ELSE /\ state_attrs' = state_attrs \cup {"is_loaded"}
            /\ lifespan_pc' = "failed"
    /\ UNCHANGED <<pool_closed, pool_leased, pool_timeouts, close_calls, db_up, books, reqs,
                   metric_vars, DB_FAILURES>>

\* lines 54-61 run without suspension; ok says whether AsyncConnectionPool(...)
\* returned a pool object (TRUE) or raised (FALSE)
LifespanEnter(ok) ==
    /\ LoopFree
    /\ lifespan_pc = "not_started"
    /\ IF ok
       THEN /\ state_attrs' = state_attrs \cup {"is_loaded", "pool"}
            /\ is_loaded' = TRUE
            /\ lifespan_pc' = "yielded"
       ELSE /\ state_attrs' = state_attrs \cup {"is_loaded"}
            /\ is_loaded' = FALSE
            /\ lifespan_pc' = "failed"
    /\ UNCHANGED <<pool_closed, pool_leased, pool_timeouts, close_calls, db_up, books, reqs,
                   metric_vars, DB_FAILURES>>

\* LifespanExit with the flag cleared at shutdown
LifespanExitReset ==
    /\ LoopFree
    /\ lifespan_pc = "yielded"
    /\ is_loaded' = FALSE
    /\ pool_closed' = TRUE
    /\ close_calls' = close_calls + 1
    /\ lifespan_pc' = "closing"
    /\ UNCHANGED <<state_attrs, pool_leased, pool_timeouts, db_up, books, reqs, metric_vars, DB_FAILURES>>

\* the scope is left normally: the generator resumes after yield and calls
\* app.state.pool.close(), which marks the pool closed and suspends
LifespanExit ==
    /\ LoopFree
    /\ lifespan_pc = "yielded"
    /\ pool_closed' = TRUE
    /\ close_calls' = close_calls + 1
    /\ lifespan_pc' = "closing"
    /\ UNCHANGED <<state_attrs, is_loaded, pool_leased, pool_timeouts, db_up, books, reqs,
                   metric_vars, DB_FAILURES>>

\* the awaited close() returns and the generator ends
LifespanCloseReturn ==
    /\ LoopFree
    /\ lifespan_pc = "closing"
    /\ lifespan_pc' = "closed"
    /\ UNCHANGED <<state_attrs, is_loaded, pool_closed, pool_leased, pool_timeouts, close_calls, db_up,
                   books, reqs, metric_vars, DB_FAILURES>>

\* the awaited close() is left by an exception (a cancellation delivered while
\* it is pending): the generator ends with it
LifespanCloseThrow ==
    /\ LoopFree
    /\ lifespan_pc = "closing"
    /\ lifespan_pc' = "aborted"
    /\ UNCHANGED <<state_attrs, is_loaded, pool_closed, pool_leased, pool_timeouts, close_calls, db_up,
                   books, reqs, metric_vars, DB_FAILURES>>

\* the scope is left by an exception: it is thrown into the generator at yield,
\* which has no try/finally around it, so line 63 does not run
LifespanThrow ==
    /\ LoopFree
    /\ lifespan_pc = "yielded"
    /\ lifespan_pc' = "aborted"
    /\ UNCHANGED <<state_attrs, is_loaded, pool_closed, pool_leased, pool_timeouts, close_calls, db_up,
                   books, reqs, metric_vars, DB_FAILURES>>

(***************************************************************************)
(* The database.                                                           *)
(***************************************************************************)
DbDown ==
    /\ db_up
    /\ db_up' = FALSE
    /\ UNCHANGED <<lifecycle_vars, pool_leased, pool_timeouts, books, reqs, metric_vars, DB_FAILURES>>

DbUp ==
    /\ ~db_up
    /\ db_up' = TRUE
    /\ UNCHANGED <<lifecycle_vars, pool_leased, pool_timeouts, books, reqs, metric_vars, DB_FAILURES>>

(***************************************************************************)
(* The pool: app.state.pool.connection() as a scoped lease.                *)
(***************************************************************************)
hasattr_pool == "pool" \in state_attrs

\* a connection can be handed out
CanLease == hasattr_pool /\ ~pool_closed /\ pool_leased < max_size

\* connection() raises: the pool is closed, or the wait for a connection times out
\* (all max_size connections are leased, or none can be established)
LeaseRaises == hasattr_pool /\ (pool_closed \/ pool_leased >= max_size \/ ~db_up)

\* the wait of connection() times out with all max_size connections leased
PoolExhausted == hasattr_pool /\ ~pool_closed /\ pool_leased >= max_size

\* the history of the timeouts at exhaustion, after connection() has raised
wait_timed_out(n) == IF PoolExhausted THEN n + 1 ELSE n

getconn(n) == n + 1

\* leaving the `async with` scope returns the connection, on success ...
putconn(n) == n - 1

\* ... and when the scope is left by an exception
putconn_on_error(n) == n - 1

(***************************************************************************)
(* Middleware, first half: a request arrives and call_next is invoked.     *)
(***************************************************************************)
Arrive(ep, max) ==
    /\ LoopFree
    /\ Arrived(Endpoints) < max
    /\ reqs' = reqs (+) SetToBag({Called(ep)})
    /\ UNCHANGED <<lifecycle_vars, pool_leased, pool_timeouts, db_up, books, metric_vars, DB_FAILURES>>

Request(ep) == Arrive(ep, MaxRequests)

\* the workload of SpecPool: more requests than the pool has connections
RequestDb(ep) == Arrive(ep, MaxPoolRequests)

(***************************************************************************)
(* Handlers.                                                               *)
(***************************************************************************)
\* healthz with a dependency check
healthz_checks_db ==
    IF db_up THEN JSON(200, [status |-> "ok"]) ELSE HTTPException(503, "Database not ready")

healthz == JSON(200, [status |-> "ok"])

\* runs in a worker thread
Healthz ==
    /\ Move(Called("/healthz"), Responded("/healthz", healthz))
    /\ UNCHANGED <<lifecycle_vars, pool_leased, pool_timeouts, db_up, books, metric_vars, DB_FAILURES>>

getattr_is_loaded == IF "is_loaded" \in state_attrs THEN is_loaded ELSE FALSE

\* startup conflated with readiness
startup_conflated ==
    IF ~getattr_is_loaded \/ ~db_up
    THEN HTTPException(503, "Initializing")
    ELSE JSON(200, [status |-> "started"])

startup ==
    IF ~getattr_is_loaded
    THEN HTTPException(503, "Initializing")
    ELSE JSON(200, [status |-> "started"])

Startup ==
    /\ MoveOnLoop(Called("/startup"), Responded("/startup", startup))
    /\ UNCHANGED <<lifecycle_vars, pool_leased, pool_timeouts, db_up, books, metric_vars, DB_FAILURES>>

\* metrics: generate_latest() in a worker thread.  It collects REQUEST_COUNT,
\* REQUEST_LATENCY and DB_FAILURES in the order of their registration.  Of a
\* labelled metric it copies the dictionary of the children, then reads the
\* children of the copy one by one; a child created later has no sample (0).
\* The field base remembers the responses returned before the handler started.
Collecting(phase, todo, base, count, latency) ==
    [ep |-> "/metrics", pc |-> phase, todo |-> todo, base |-> base,
     count |-> count, latency |-> latency]

MetricsCopyCount ==
    /\ Move(Called("/metrics"),
            Collecting("count", count_children, returned,
                       [l \in Labels |-> 0], [l \in LatencyLabels |-> 0]))
    /\ UNCHANGED <<lifecycle_vars, pool_leased, pool_timeouts, db_up, books, metric_vars, DB_FAILURES>>

MetricsReadCount(r) ==
    /\ r.pc = "count"
    /\ r.todo # <<>>
    /\ Move(r, [r EXCEPT !.todo = Tail(r.todo),
                         !.count[Head(r.todo)] = REQUEST_COUNT[Head(r.todo)]])
    /\ UNCHANGED <<lifecycle_vars, pool_leased, pool_timeouts, db_up, books, metric_vars, DB_FAILURES>>

MetricsCopyLatency(r) ==
    /\ r.pc = "count"
    /\ r.todo = <<>>
    /\ Move(r, [r EXCEPT !.pc = "latency", !.todo = latency_children])
    /\ UNCHANGED <<lifecycle_vars, pool_leased, pool_timeouts, db_up, books, metric_vars, DB_FAILURES>>

MetricsReadLatency(r) ==
    /\ r.pc = "latency"
    /\ r.todo # <<>>
    /\ Move(r, [r EXCEPT !.todo = Tail(r.todo),
                         !.latency[Head(r.todo)] = REQUEST_LATENCY[Head(r.todo)]])
    /\ UNCHANGED <<lifecycle_vars, pool_leased, pool_timeouts, db_up, books, metric_vars, DB_FAILURES>>

generate_latest(r) ==
    [ http_requests_total |-> r.count,
      http_request_duration_seconds_count |-> r.latency,
      db_connection_failures_total |-> DB_FAILURES ]

metrics(r) == JSON(200, [text |-> generate_latest(r)])

\* DB_FAILURES is read last and the response is returned
MetricsRespond(r) ==
    /\ r.pc = "latency"
    /\ r.todo = <<>>
    /\ Move(r, [ep |-> "/metrics", pc |-> "responded", status |-> metrics(r).status,
                body |-> metrics(r).body, base |-> r.base])
    /\ UNCHANGED <<lifecycle_vars, pool_leased, pool_timeouts, db_up, books, metric_vars, DB_FAILURES>>

\* readyz
readyz_no_pool == HTTPException(503, "Pool not initialized")
readyz_ok == JSON(200, [status |-> "ready"])
readyz_except == HTTPException(503, "Database not ready")

ReadyzNoPool ==
    /\ ~hasattr_pool
    /\ MoveOnLoop(Called("/readyz"), Responded("/readyz", readyz_no_pool))
    /\ UNCHANGED <<lifecycle_vars, pool_leased, pool_timeouts, db_up, books, metric_vars, DB_FAILURES>>

ReadyzLease ==
    /\ CanLease
    /\ MoveOnLoop(Called("/readyz"), Leased("/readyz"))
    /\ pool_leased' = getconn(pool_leased)
    /\ UNCHANGED pool_timeouts
    /\ UNCHANGED <<lifecycle_vars, db_up, books, metric_vars, DB_FAILURES>>

\* ReadyzLeaseFail without DB_FAILURES.inc()
ReadyzLeaseFailNoCount ==
    /\ LeaseRaises
    /\ MoveOnLoop(Called("/readyz"), Responded("/readyz", readyz_except))
    /\ pool_timeouts' = wait_timed_out(pool_timeouts)
    /\ UNCHANGED <<lifecycle_vars, pool_leased, db_up, books, metric_vars, DB_FAILURES>>

ReadyzLeaseFail ==
    /\ LeaseRaises
    /\ MoveOnLoop(Called("/readyz"), Responded("/readyz", readyz_except))
    /\ DB_FAILURES' = DB_FAILURES + 1
    /\ pool_timeouts' = wait_timed_out(pool_timeouts)
    /\ UNCHANGED <<lifecycle_vars, pool_leased, db_up, books, metric_vars>>

\* SELECT 1 succeeds, the scope is left, the handler returns
ReadyzQuery ==
    /\ db_up
    /\ MoveOnLoop(Leased("/readyz"), Responded("/readyz", readyz_ok))
    /\ pool_leased' = putconn(pool_leased)
    /\ UNCHANGED pool_timeouts
    /\ UNCHANGED <<lifecycle_vars, db_up, books, metric_vars, DB_FAILURES>>

ReadyzQueryFail ==
    /\ ~db_up
    /\ MoveOnLoop(Leased("/readyz"), Responded("/readyz", readyz_except))
    /\ pool_leased' = putconn_on_error(pool_leased)
    /\ UNCHANGED pool_timeouts
    /\ DB_FAILURES' = DB_FAILURES + 1
    /\ UNCHANGED <<lifecycle_vars, db_up, books, metric_vars>>

\* list_books
\* the results of "SELECT title, id FROM books;": the rows as (title, id) tuples,
\* in any order
fetchall ==
    LET T == {<<b.title, b.id>> : b \in books}
        n == Cardinality(T)
    IN  {s \in [1..n -> T] : \A i, j \in 1..n : s[i] = s[j] => i = j}

\* list_books_rows that loses the last row
list_books_rows_short(rows) ==
    [i \in 1..(Len(rows) - 1) |-> [title |-> rows[i][1], id |-> rows[i][2]]]

\* [{"title": r[0], "id": r[1]} for r in rows]
list_books_rows(rows) == [i \in 1..Len(rows) |-> [title |-> rows[i][1], id |-> rows[i][2]]]

\* the JSON array is held in the field list
list_books_ok(rows) == JSON(200, [list |-> list_books_rows(rows)])
list_books_except == HTTPException(500, "Failed to fetch books")

BooksLease ==
    /\ CanLease
    /\ MoveOnLoop(Called("/books"), Leased("/books"))
    /\ pool_leased' = getconn(pool_leased)
    /\ UNCHANGED pool_timeouts
    /\ UNCHANGED <<lifecycle_vars, db_up, books, metric_vars, DB_FAILURES>>

\* app.state.pool raises AttributeError, or connection() raises
BooksLeaseFail ==
    /\ ~hasattr_pool \/ LeaseRaises
    /\ MoveOnLoop(Called("/books"), Responded("/books", list_books_except))
    /\ DB_FAILURES' = DB_FAILURES + 1
    /\ pool_timeouts' = wait_timed_out(pool_timeouts)
    /\ UNCHANGED <<lifecycle_vars, pool_leased, db_up, books, metric_vars>>

BooksQuery(rows) ==
    /\ db_up
    /\ MoveOnLoop(Leased("/books"), Responded("/books", list_books_ok(rows)))
    /\ pool_leased' = putconn(pool_leased)
    /\ UNCHANGED pool_timeouts
    /\ UNCHANGED <<lifecycle_vars, db_up, books, metric_vars, DB_FAILURES>>

\* BooksQueryFail without DB_FAILURES.inc()
BooksQueryFailNoCount ==
    /\ ~db_up
    /\ MoveOnLoop(Leased("/books"), Responded("/books", list_books_except))
    /\ pool_leased' = putconn_on_error(pool_leased)
    /\ UNCHANGED pool_timeouts
    /\ UNCHANGED <<lifecycle_vars, db_up, books, metric_vars, DB_FAILURES>>

BooksQueryFail ==
    /\ ~db_up
    /\ MoveOnLoop(Leased("/books"), Responded("/books", list_books_except))
    /\ pool_leased' = putconn_on_error(pool_leased)
    /\ UNCHANGED pool_timeouts
    /\ DB_FAILURES' = DB_FAILURES + 1
    /\ UNCHANGED <<lifecycle_vars, db_up, books, metric_vars>>

(***************************************************************************)
(* Middleware, second half: call_next has returned the response.           *)
(***************************************************************************)
\* request_count_label that takes every response for a success
request_count_label_200(r) == <<"GET", r.ep, 200>>

request_count_label(r) == <<"GET", r.ep, r.status>>

\* labels(...) creates the child on its first use
with_child(children, l) ==
    IF \E i \in 1..Len(children) : children[i] = l THEN children ELSE Append(children, l)

\* duration, endpoint, REQUEST_COUNT.labels(...).inc()
MiddlewareCount(r) ==
    /\ LoopFree
    /\ r.pc = "responded"
    /\ Move(r, [r EXCEPT !.pc = "counted"])
    /\ REQUEST_COUNT' = [REQUEST_COUNT EXCEPT ![request_count_label(r)] = @ + 1]
    /\ count_children' = with_child(count_children, request_count_label(r))
    /\ UNCHANGED <<lifecycle_vars, pool_leased, pool_timeouts, db_up, books, DB_FAILURES,
                   REQUEST_LATENCY, latency_children, returned>>

\* REQUEST_LATENCY.labels(...).observe(duration); return response
MiddlewareObserve(r) ==
    /\ r.pc = "counted"
    /\ reqs' = reqs (-) SetToBag({r})
    /\ REQUEST_LATENCY' = [REQUEST_LATENCY EXCEPT ![<<"GET", r.ep>>] = @ + 1]
    /\ latency_children' = with_child(latency_children, <<"GET", r.ep>>)
    /\ returned' = [returned EXCEPT ![<<"GET", r.ep, r.status>>] = @ + 1]
    /\ UNCHANGED <<lifecycle_vars, pool_leased, pool_timeouts, db_up, books, DB_FAILURES,
                   REQUEST_COUNT, count_children>>

Next ==
    \/ \E ok \in BOOLEAN : LifespanEnter(ok)
    \/ LifespanExit
    \/ LifespanCloseReturn
    \/ LifespanCloseThrow
    \/ LifespanThrow
    \/ DbDown
    \/ DbUp
    \/ \E ep \in Endpoints : Request(ep)
    \/ Healthz
    \/ Startup
    \/ MetricsCopyCount
    \/ \E r \in BagToSet(reqs) : MetricsReadCount(r)
    \/ \E r \in BagToSet(reqs) : MetricsCopyLatency(r)
    \/ \E r \in BagToSet(reqs) : MetricsReadLatency(r)
    \/ \E r \in BagToSet(reqs) : MetricsRespond(r)
    \/ ReadyzNoPool
    \/ ReadyzLease
    \/ ReadyzLeaseFail
    \/ ReadyzQuery
    \/ ReadyzQueryFail
    \/ BooksLease
    \/ BooksLeaseFail
    \/ \E rows \in fetchall : BooksQuery(rows)
    \/ BooksQueryFail
    \/ \E r \in BagToSet(reqs) : MiddlewareCount(r)
    \/ \E r \in BagToSet(reqs) : MiddlewareObserve(r)

Spec == Init /\ [][Next]_vars

(***************************************************************************)
(* The same service while nothing scrapes /metrics: a workload of the      *)
(* other four endpoints.  Handling GET /metrics changes no state but its   *)
(* own request.  The table holds the rows of the specification's scenario; *)
(* its contents only show in the answers of GET /books (see SpecBooks).    *)
(***************************************************************************)
InitScenario == Init /\ books = {Dune, Foundation}

NextNoScrape ==
    \/ \E ok \in BOOLEAN : LifespanEnter(ok)
    \/ LifespanExit
    \/ LifespanCloseReturn
    \/ LifespanCloseThrow
    \/ LifespanThrow
    \/ DbDown
    \/ DbUp
    \/ \E ep \in Endpoints \ {"/metrics"} : Request(ep)
    \/ Healthz
    \/ Startup
    \/ ReadyzNoPool
    \/ ReadyzLease
    \/ ReadyzLeaseFail
    \/ ReadyzQuery
    \/ ReadyzQueryFail
    \/ BooksLease
    \/ BooksLeaseFail
    \/ \E rows \in fetchall : BooksQuery(rows)
    \/ BooksQueryFail
    \/ \E r \in BagToSet(reqs) : MiddlewareCount(r)
    \/ \E r \in BagToSet(reqs) : MiddlewareObserve(r)

SpecNoScrape == InitScenario /\ [][NextNoScrape]_vars

(***************************************************************************)
(* The same service under a workload of /books requests, for every         *)
(* contents of the table.                                                  *)
(***************************************************************************)
NextBooks ==
    \/ \E ok \in BOOLEAN : LifespanEnter(ok)
    \/ LifespanExit
    \/ LifespanCloseReturn
    \/ LifespanCloseThrow
    \/ LifespanThrow
    \/ DbDown
    \/ DbUp
    \/ Request("/books")
    \/ BooksLease
    \/ BooksLeaseFail
    \/ \E rows \in fetchall : BooksQuery(rows)
    \/ BooksQueryFail
    \/ \E r \in BagToSet(reqs) : MiddlewareCount(r)
    \/ \E r \in BagToSet(reqs) : MiddlewareObserve(r)

SpecBooks == Init /\ [][NextBooks]_vars

(***************************************************************************)
(* The same service under a workload of /readyz and /books requests only,  *)
(* enough of them to exhaust the pool.                                     *)
(***************************************************************************)
NextPool ==
    \/ \E ok \in BOOLEAN : LifespanEnter(ok)
    \/ LifespanExit
    \/ LifespanCloseReturn
    \/ LifespanCloseThrow
    \/ LifespanThrow
    \/ DbDown
    \/ DbUp
    \/ \E ep \in DbEndpoints : RequestDb(ep)
    \/ ReadyzNoPool
    \/ ReadyzLease
    \/ ReadyzLeaseFail
    \/ ReadyzQuery
    \/ ReadyzQueryFail
    \/ BooksLease
    \/ BooksLeaseFail
    \/ \E rows \in fetchall : BooksQuery(rows)
    \/ BooksQueryFail
    \/ \E r \in BagToSet(reqs) : MiddlewareCount(r)
    \/ \E r \in BagToSet(reqs) : MiddlewareObserve(r)

SpecPool == InitScenario /\ [][NextPool]_vars

(***************************************************************************)
(* Properties.                                                             *)
(***************************************************************************)
\* the step answers a request with the record q (q a record of reqs')
Answered(q) == q.pc = "responded" /\ CopiesIn(q, reqs') > CopiesIn(q, reqs)

IsResponse(q, ep, resp) == q.ep = ep /\ q.status = resp.status /\ q.body = resp.body

InFlight(ep) == {q \in BagToSet(reqs) : q.ep = ep /\ q.pc = "responded"}

\* C1: a step that answers GET /startup answers 200 {"status":"started"} when the
\* lifecycle flag is set and true in the state it is handled in, and 503
\* "Initializing" when the flag is false or not yet set, whatever the state of
\* the database and of the pool.
C1_StartupFollowsFlag ==
    [][\A q \in BagToSet(reqs') :
          (q.ep = "/startup" /\ Answered(q)) =>
              IF "is_loaded" \in state_attrs /\ is_loaded
              THEN q.status = 200 /\ q.body = [status |-> "started"]
              ELSE q.status = 503 /\ q.body = [detail |-> "Initializing"]]_vars

\* an answer 503 given before the flag was set and an answer 200 given after it
C1_Witness ==
    /\ \E q \in InFlight("/startup") : q.status = 503
    /\ \E q \in InFlight("/startup") : q.status = 200

\* C2: a step that answers GET /readyz has one of three outcomes: 503 "Pool not
\* initialized" with the failure counter unchanged, when no pool object exists;
\* 200 {"status":"ready"} with the counter unchanged, when the pool exists and
\* the round trip succeeds; 503 "Database not ready" with the counter
\* incremented by exactly 1, when the pool exists and the lease or the round
\* trip fails.
C2_ReadyzOutcomes ==
    [][\A q \in BagToSet(reqs') :
          (q.ep = "/readyz" /\ Answered(q)) =>
              \/ /\ ~hasattr_pool
                 /\ IsResponse(q, "/readyz", [status |-> 503, body |-> [detail |-> "Pool not initialized"]])
                 /\ DB_FAILURES' = DB_FAILURES
              \/ /\ hasattr_pool
                 /\ db_up
                 /\ IsResponse(q, "/readyz", [status |-> 200, body |-> [status |-> "ready"]])
                 /\ DB_FAILURES' = DB_FAILURES
              \/ /\ hasattr_pool
                 /\ ~db_up \/ pool_closed \/ pool_leased >= max_size
                 /\ IsResponse(q, "/readyz", [status |-> 503, body |-> [detail |-> "Database not ready"]])
                 /\ DB_FAILURES' = DB_FAILURES + 1]_vars

\* the three outcomes, each given to a request that is still in flight
C2_Witness ==
    /\ \E q \in InFlight("/readyz") : q.body = [detail |-> "Pool not initialized"]
    /\ \E q \in InFlight("/readyz") : q.body = [status |-> "ready"]
    /\ \E q \in InFlight("/readyz") : q.body = [detail |-> "Database not ready"]
    /\ DB_FAILURES = 1

\* C3: a step that answers GET /books answers 200 or 500; handled while the
\* database is unreachable it answers 500; an answer 500 carries the detail
\* "Failed to fetch books" and increments the failure counter by exactly 1; an
\* answer 200 leaves the counter unchanged.
C3_BooksFailureCounted ==
    [][\A q \in BagToSet(reqs') :
          (q.ep = "/books" /\ Answered(q)) =>
              /\ q.status \in {200, 500}
              /\ ~db_up => q.status = 500
              /\ q.status = 500 =>
                    /\ q.body = [detail |-> "Failed to fetch books"]
                    /\ DB_FAILURES' = DB_FAILURES + 1
              /\ q.status = 200 => DB_FAILURES' = DB_FAILURES]_vars

\* two failed requests while the database is down, both counted, after the pool was opened
C3_Witness ==
    /\ hasattr_pool
    /\ ~db_up
    /\ \E q \in InFlight("/books") : q.status = 500
    /\ returned[<<"GET", "/books", 500>>] = 1
    /\ DB_FAILURES = 2

\* C4: every answer to GET /books is either 200 with one {title, id} structure
\* per row of the table, exactly the rows of the table, or 500 with the detail
\* and no rows.
C4_BooksExactRows ==
    \A q \in InFlight("/books") :
        \/ /\ q.status = 200
           /\ Len(q.body.list) = Cardinality(books)
           /\ {q.body.list[i] : i \in 1..Len(q.body.list)} = books
        \/ /\ q.status = 500
           /\ q.body = [detail |-> "Failed to fetch books"]

\* a successful answer with three rows, two of them with the same title
C4_Witness ==
    \E q \in InFlight("/books") :
        /\ q.status = 200
        /\ Len(q.body.list) = 3
        /\ q.body.list[1].title = q.body.list[3].title

\* the responses with the labels l that the middleware has counted and not yet returned
Counting(l) ==
    LET c == {r \in BagToSet(reqs) : r.pc = "counted" /\ <<"GET", r.ep, r.status>> = l}
    IN  SumOver(c, [r \in c |-> CopiesIn(r, reqs)])

\* C5: http_requests_total counts, label by label, exactly the responses returned
\* to the clients and the one the middleware is returning, error responses
\* included; and the count that an answer of GET /metrics exposes for a label is
\* at least the number of responses with that label returned before the request
\* was handled and at most the number counted when it answers.
C5_RequestsCounted ==
    /\ \A l \in Labels : REQUEST_COUNT[l] = returned[l] + Counting(l)
    /\ \A q \in InFlight("/metrics") :
          \A l \in Labels :
              /\ q.base[l] <= q.body.text.http_requests_total[l]
              /\ q.body.text.http_requests_total[l] <= REQUEST_COUNT[l]

\* a GET /metrics handled after a failed GET /books was returned exposes it,
\* while a GET /healthz recorded during generate_latest() tears the snapshot:
\* missing from http_requests_total, present in the histogram
C5_Witness ==
    \E q \in InFlight("/metrics") :
        /\ q.base[<<"GET", "/books", 500>>] = 1
        /\ q.body.text.http_requests_total[<<"GET", "/books", 500>>] = 1
        /\ q.body.text.http_requests_total[<<"GET", "/healthz", 200>>] = 0
        /\ q.body.text.http_request_duration_seconds_count[<<"GET", "/healthz">>] = 1

\* C6: a step that answers GET /healthz answers 200 {"status":"ok"}, leases no
\* connection and leaves the failure counter unchanged.
C6_HealthzAlwaysOk ==
    [][\A q \in BagToSet(reqs') :
          (q.ep = "/healthz" /\ Answered(q)) =>
              /\ q.status = 200
              /\ q.body = [status |-> "ok"]
              /\ pool_leased' = pool_leased
              /\ DB_FAILURES' = DB_FAILURES]_vars

\* answered with no pool, the flag not set and the database down
C6_Witness ==
    /\ InFlight("/healthz") # {}
    /\ state_attrs = {}
    /\ ~db_up

\* C7: once the lifespan scope has been left with the pool opened, close() was
\* called exactly once.
C7_PoolClosedOnEveryExit ==
    (lifespan_pc \in {"closed", "aborted", "failed"} /\ hasattr_pool) => close_calls = 1

\* the connections leased are those of the requests that hold a lease, at most 5
LeasesHeld ==
    /\ pool_leased <= 5
    /\ pool_leased = CopiesIn(Leased("/readyz"), reqs) + CopiesIn(Leased("/books"), reqs)
    /\ reqs = EmptyBag => pool_leased = 0

\* C8: in every state at most max_size (5) connections are leased, they are
\* those of the requests that hold a lease, and none is leased when no request
\* is in flight; a step grants a lease only while fewer than 5 are leased, so
\* that a request finding 5 leased waits; a step that answers a waiting
\* GET /books or GET /readyz while 5 are leased is the failed lease: 500
\* "Failed to fetch books" or 503 "Database not ready", the failure counter
\* incremented by exactly 1 and the 5 leases untouched; and a step that answers
\* a request holding a lease returns its connection, on success and on error.
C8_LeasesBounded ==
    /\ LeasesHeld
    /\ [][/\ LeasesHeld'
          /\ \A ep \in DbEndpoints :
                CopiesIn(Leased(ep), reqs') > CopiesIn(Leased(ep), reqs) =>
                    /\ pool_leased < 5
                    /\ pool_leased' = pool_leased + 1
                    /\ CopiesIn(Called(ep), reqs') = CopiesIn(Called(ep), reqs) - 1
          /\ \A q \in BagToSet(reqs') :
                (q.ep \in DbEndpoints /\ Answered(q)) =>
                    \/ /\ CopiesIn(Called(q.ep), reqs') = CopiesIn(Called(q.ep), reqs) - 1
                       /\ pool_leased' = pool_leased
                       /\ pool_leased = 5 =>
                             /\ \/ IsResponse(q, "/books", [status |-> 500, body |-> [detail |-> "Failed to fetch books"]])
                                \/ IsResponse(q, "/readyz", [status |-> 503, body |-> [detail |-> "Database not ready"]])
                             /\ DB_FAILURES' = DB_FAILURES + 1
                    \/ /\ CopiesIn(Leased(q.ep), reqs') = CopiesIn(Leased(q.ep), reqs) - 1
                       /\ pool_leased' = pool_leased - 1
                       /\ q.status \in {200, 500, 503}]_vars

\* the pool is open and exhausted by requests of both endpoints, and the only
\* failure counted is that of the sixth request, a GET /books answered 500 when
\* its wait timed out, the 5 connections still leased
C8_Witness ==
    /\ pool_leased = 5
    /\ ~pool_closed
    /\ BagIn(Leased("/readyz"), reqs)
    /\ BagIn(Leased("/books"), reqs)
    /\ pool_timeouts = 1
    /\ DB_FAILURES = 1
    /\ \E q \in InFlight("/books") : q.status = 500

\* C9: once the flag is true it is true in the next state, and it becomes true
\* only in the startup step of the lifespan.
C9_FlagNeverReset ==
    [][/\ getattr_is_loaded => getattr_is_loaded'
       /\ (~getattr_is_loaded /\ getattr_is_loaded') =>
              (lifespan_pc = "not_started" /\ lifespan_pc' = "yielded")]_vars

\* the flag is true after shutdown, the pool closed
C9_Witness == getattr_is_loaded /\ lifespan_pc = "closed" /\ pool_closed

\* C10: the flag is true only if the pool object exists, and a connection is
\* leased only in states where the flag is true.
C10_FlagAfterPool ==
    /\ getattr_is_loaded => hasattr_pool
    /\ (pool_leased > 0 \/ \E q \in BagToSet(reqs) : q.pc = "leased") => getattr_is_loaded

\* the flag is true and a connection is leased though no round trip has succeeded
C10_Witness ==
    /\ getattr_is_loaded
    /\ pool_leased >= 1
    /\ DB_FAILURES >= 1
    /\ \A ep \in DbEndpoints :
          /\ returned[<<"GET", ep, 200>>] = 0
          /\ \A q \in InFlight(ep) : q.status # 200

====
